---- MODULE Spec2Model ----
(***************************************************************************)
(* Model of pkg/koordlet/util/system/cgroup_driver.go (koordinator):       *)
(* the two cgroup path formatters (systemd and cgroupfs conventions), the  *)
(* cgroup driver detection, and the process-wide CgroupPathFormatter.      *)
(*                                                                         *)
(* Go strings that the code takes apart (pod UIDs, container IDs, cgroup   *)
(* directory names) are sequences of one-character strings, so that        *)
(* strings.Split, strings.ReplaceAll, HasPrefix, HasSuffix and slicing are *)
(* computed and not assumed.  Values that the code only compares           *)
(* (CgroupDriverType, PodQOSClass) are TLA+ strings.                       *)
(***************************************************************************)
EXTENDS Naturals, Sequences, FiniteSets

(***************************************************************************)
(* Bounds of the model.                                                    *)
(***************************************************************************)
MaxUidLen == 3
MaxHashLen == 3

(***************************************************************************)
(* Program constants.                                                      *)
(***************************************************************************)
Cgroupfs == "cgroupfs"
Systemd == "systemd"
kubeletDefaultCgroupDriver == Cgroupfs

KubeRootNameSystemd == "kubepods.slice/"
KubeRootNameCgroupfs == "kubepods/"

RuntimeTypeDocker == <<"d", "o", "c", "k", "e", "r">>
RuntimeTypeContainerd == <<"c", "o", "n", "t", "a", "i", "n", "e", "r", "d">>
RuntimeTypeUnknown == <<"u", "n", "k", "n", "o", "w", "n">>

PodQOSGuaranteed == "Guaranteed"
PodQOSBurstable == "Burstable"
PodQOSBestEffort == "BestEffort"

\* String literals of the formatters.
KubepodsBesteffortPodPrefix == <<"k", "u", "b", "e", "p", "o", "d", "s", "-", "b", "e", "s", "t", "e", "f", "f", "o", "r", "t", "-", "p", "o", "d">>
KubepodsBurstablePodPrefix == <<"k", "u", "b", "e", "p", "o", "d", "s", "-", "b", "u", "r", "s", "t", "a", "b", "l", "e", "-", "p", "o", "d">>
KubepodsPodPrefix == <<"k", "u", "b", "e", "p", "o", "d", "s", "-", "p", "o", "d">>
SliceSuffix == <<".", "s", "l", "i", "c", "e">>
DockerScopePrefix == <<"d", "o", "c", "k", "e", "r", "-">>
CriContainerdScopePrefix == <<"c", "r", "i", "-", "c", "o", "n", "t", "a", "i", "n", "e", "r", "d", "-">>
ScopeSuffix == <<".", "s", "c", "o", "p", "e">>
PodPrefix == <<"p", "o", "d">>
SchemeSep == <<":", "/", "/">>
Slash == <<"/">>
Hyphen == <<"-">>
Underscore == <<"_">>

(***************************************************************************)
(* The string functions of Go's package strings that the code uses.        *)
(***************************************************************************)
HasPrefix(s, prefix) ==
    /\ Len(s) >= Len(prefix)
    /\ SubSeq(s, 1, Len(prefix)) = prefix

HasSuffix(s, suffix) ==
    /\ Len(s) >= Len(suffix)
    /\ SubSeq(s, Len(s) - Len(suffix) + 1, Len(s)) = suffix

\* s[lo:hi] of Go (0-based, hi exclusive).
Slice(s, lo, hi) == SubSeq(s, lo + 1, hi)

\* 1-based position of the first occurrence of sep in s, 0 when there is none.
Index(s, sep) ==
    LET hits == {i \in 1..Len(s) :
                    /\ i + Len(sep) - 1 <= Len(s)
                    /\ SubSeq(s, i, i + Len(sep) - 1) = sep}
    IN  IF hits = {} THEN 0
        ELSE CHOOSE i \in hits : \A j \in hits : i <= j

\* strings.Split(s, sep) for a non-empty sep.
RECURSIVE Split(_, _)
Split(s, sep) ==
    LET m == Index(s, sep)
    IN  IF m = 0 THEN <<s>>
        ELSE <<SubSeq(s, 1, m - 1)>> \o Split(SubSeq(s, m + Len(sep), Len(s)), sep)

\* strings.ReplaceAll(s, old, new) for a non-empty old.
RECURSIVE ReplaceAll(_, _, _)
ReplaceAll(s, old, new) ==
    LET m == Index(s, old)
    IN  IF m = 0 THEN s
        ELSE SubSeq(s, 1, m - 1) \o new
                \o ReplaceAll(SubSeq(s, m + Len(old), Len(s)), old, new)

(***************************************************************************)
(* CgroupDriverType.Validate                                               *)
(***************************************************************************)
Validate(c) == c = Cgroupfs \/ c = Systemd

(***************************************************************************)
(* The prefix/suffix pattern loop shared by the systemd parsers: the first *)
(* pattern whose prefix and suffix both match yields what lies between.    *)
(***************************************************************************)
ParseByPatterns(basename, patterns) ==
    LET hits == {i \in 1..Len(patterns) :
                    /\ HasPrefix(basename, patterns[i].prefix)
                    /\ HasSuffix(basename, patterns[i].suffix)}
    IN  IF hits = {} THEN [id |-> <<>>, err |-> TRUE]
        ELSE LET i == CHOOSE i \in hits : \A j \in hits : i <= j
             IN  [id  |-> Slice(basename, Len(patterns[i].prefix),
                                Len(basename) - Len(patterns[i].suffix)),
                  err |-> FALSE]

(***************************************************************************)
(* cgroupPathFormatterInSystemd: the functions of the systemd convention.  *)
(***************************************************************************)
SystemdPodDirFnKeepHyphens(qos, podUID) ==
    CASE qos = PodQOSBurstable  -> KubepodsBurstablePodPrefix \o podUID \o SliceSuffix \o Slash
      [] qos = PodQOSBestEffort -> KubepodsBesteffortPodPrefix \o podUID \o SliceSuffix \o Slash
      [] qos = PodQOSGuaranteed -> KubepodsPodPrefix \o podUID \o SliceSuffix \o Slash
      [] OTHER -> Slash

SystemdPodDirFn(qos, podUID) ==
    LET id == ReplaceAll(podUID, Hyphen, Underscore)
    IN  CASE qos = PodQOSBurstable  -> KubepodsBurstablePodPrefix \o id \o SliceSuffix \o Slash
          [] qos = PodQOSBestEffort -> KubepodsBesteffortPodPrefix \o id \o SliceSuffix \o Slash
          [] qos = PodQOSGuaranteed -> KubepodsPodPrefix \o id \o SliceSuffix \o Slash
          [] OTHER -> Slash

SystemdContainerDirFn(id) ==
    LET hashID == Split(id, SchemeSep)
    IN  IF Len(hashID) < 2
        THEN [runtime |-> RuntimeTypeUnknown, name |-> <<>>, err |-> TRUE]
        ELSE CASE hashID[1] = RuntimeTypeDocker ->
                    [runtime |-> RuntimeTypeDocker,
                     name |-> DockerScopePrefix \o hashID[2] \o ScopeSuffix,
                     err |-> FALSE]
               [] hashID[1] = RuntimeTypeContainerd ->
                    [runtime |-> RuntimeTypeContainerd,
                     name |-> CriContainerdScopePrefix \o hashID[2] \o ScopeSuffix,
                     err |-> FALSE]
               [] OTHER ->
                    [runtime |-> RuntimeTypeUnknown, name |-> <<>>, err |-> TRUE]

SystemdPodIDParser(basename) ==
    ParseByPatterns(basename,
        << [prefix |-> KubepodsBesteffortPodPrefix, suffix |-> SliceSuffix],
           [prefix |-> KubepodsBurstablePodPrefix, suffix |-> SliceSuffix],
           [prefix |-> KubepodsPodPrefix, suffix |-> SliceSuffix] >>)

SystemdContainerIDParserDockerOnly(basename) ==
    ParseByPatterns(basename,
        << [prefix |-> DockerScopePrefix, suffix |-> ScopeSuffix] >>)

SystemdContainerIDParser(basename) ==
    ParseByPatterns(basename,
        << [prefix |-> DockerScopePrefix, suffix |-> ScopeSuffix],
           [prefix |-> CriContainerdScopePrefix, suffix |-> ScopeSuffix] >>)

(***************************************************************************)
(* cgroupPathFormatterInCgroupfs: the functions of the cgroupfs            *)
(* convention.                                                             *)
(***************************************************************************)
CgroupfsPodDirFn(qos, podUID) == PodPrefix \o podUID \o Slash

CgroupfsContainerDirFnPrefixMatch(id) ==
    LET hashID == Split(id, SchemeSep)
    IN  IF Len(hashID) < 2
        THEN [runtime |-> RuntimeTypeUnknown, name |-> <<>>, err |-> TRUE]
        ELSE IF HasPrefix(hashID[1], RuntimeTypeDocker)
        THEN [runtime |-> RuntimeTypeDocker, name |-> hashID[2], err |-> FALSE]
        ELSE IF HasPrefix(hashID[1], RuntimeTypeContainerd)
        THEN [runtime |-> RuntimeTypeContainerd, name |-> hashID[2], err |-> FALSE]
        ELSE [runtime |-> RuntimeTypeUnknown, name |-> <<>>, err |-> TRUE]

CgroupfsContainerDirFn(id) ==
    LET hashID == Split(id, SchemeSep)
    IN  IF Len(hashID) < 2
        THEN [runtime |-> RuntimeTypeUnknown, name |-> <<>>, err |-> TRUE]
        ELSE IF hashID[1] = RuntimeTypeDocker
        THEN [runtime |-> RuntimeTypeDocker, name |-> hashID[2], err |-> FALSE]
        ELSE IF hashID[1] = RuntimeTypeContainerd
        THEN [runtime |-> RuntimeTypeContainerd, name |-> hashID[2], err |-> FALSE]
        ELSE [runtime |-> RuntimeTypeUnknown, name |-> <<>>, err |-> TRUE]

CgroupfsPodIDParser(basename) ==
    IF HasPrefix(basename, PodPrefix)
    THEN [id |-> Slice(basename, Len(PodPrefix), Len(basename)), err |-> FALSE]
    ELSE [id |-> <<>>, err |-> TRUE]

CgroupfsContainerIDParser(basename) == [id |-> basename, err |-> FALSE]

(***************************************************************************)
(* type Formatter: a struct value of six fields.  A function field is one  *)
(* machine word and holds the convention whose closure it points to.       *)
(* ParentDir is a Go string, two machine words: the pointer to the bytes   *)
(* (here the literal it points to) and the length.                         *)
(***************************************************************************)
FormatterFields ==
    {"ParentDir", "QOSDirFn", "PodDirFn", "ContainerDirFn", "PodIDParser",
     "ContainerIDParser"}

\* The seven machine words of a Formatter value, as paths into the record.
FormatterWords ==
    {<<"ParentDir", "ptr">>, <<"ParentDir", "len">>, <<"QOSDirFn">>,
     <<"PodDirFn">>, <<"ContainerDirFn">>, <<"PodIDParser">>,
     <<"ContainerIDParser">>}

GoString(literal, length) == [ptr |-> literal, len |-> length]

\* The word w of the Formatter value f, and f with its word w set to v.
WordOf(f, w) == IF Len(w) = 2 THEN f[w[1]][w[2]] ELSE f[w[1]]
WithWord(f, w, v) ==
    IF Len(w) = 2 THEN [f EXCEPT ![w[1]][w[2]] = v] ELSE [f EXCEPT ![w[1]] = v]

cgroupPathFormatterInSystemd ==
    [ParentDir |-> GoString(KubeRootNameSystemd, 15), QOSDirFn |-> Systemd, PodDirFn |-> Systemd,
     ContainerDirFn |-> Systemd, PodIDParser |-> Systemd,
     ContainerIDParser |-> Systemd]

cgroupPathFormatterInCgroupfs ==
    [ParentDir |-> GoString(KubeRootNameCgroupfs, 9), QOSDirFn |-> Cgroupfs, PodDirFn |-> Cgroupfs,
     ContainerDirFn |-> Cgroupfs, PodIDParser |-> Cgroupfs,
     ContainerIDParser |-> Cgroupfs]

\* Calls through a Formatter value f.
PodDirFn(f, qos, podUID) ==
    IF f.PodDirFn = Systemd THEN SystemdPodDirFn(qos, podUID)
    ELSE CgroupfsPodDirFn(qos, podUID)

ContainerDirFn(f, id) ==
    IF f.ContainerDirFn = Systemd THEN SystemdContainerDirFn(id)
    ELSE CgroupfsContainerDirFn(id)

PodIDParser(f, basename) ==
    IF f.PodIDParser = Systemd THEN SystemdPodIDParser(basename)
    ELSE CgroupfsPodIDParser(basename)

ContainerIDParser(f, basename) ==
    IF f.ContainerIDParser = Systemd THEN SystemdContainerIDParser(basename)
    ELSE CgroupfsContainerIDParser(basename)

(***************************************************************************)
(* State.                                                                  *)
(*                                                                         *)
(* Formatting and parsing calls (pure functions, checked under SpecFmt):   *)
(*   fmtr, fop, qos, podUID, containerID  the formatter and the inputs     *)
(*   fpc                                  "start", "formatted", "parsed"   *)
(*   podDir, podBase, podParsed           PodDirFn's result, the basename  *)
(*                                        given to PodIDParser, its result *)
(*   ctrDir, ctrParsed                    ContainerDirFn's result and      *)
(*                                        ContainerIDParser's result       *)
(*                                                                         *)
(* The process:                                                            *)
(*   CgroupPathFormatter   the package variable (a Formatter struct value) *)
(*   phase                 "boot" before package initialisation, then      *)
(*                         "running"                                       *)
(*   seedGuess, seeded     what GuessCgroupDriverFromCgroupName returned   *)
(*                         to GetCgroupFormatter, and the value it bound   *)
(*   lastBind              "seed", or the driver of the latest             *)
(*                         SetupCgroupPathFormatter call with a valid one  *)
(*   wpc, wdriver, wpending  the goroutine calling                         *)
(*                         SetupCgroupPathFormatter: the struct assignment *)
(*                         copies the words still in wpending              *)
(*   dpc, dcaller, dguess, attempts, lastIter, pollEnd, kdriver, kerr,     *)
(*   dret                  the goroutine calling DetectCgroupDriver or     *)
(*                         DetectCgroupDriverFromKubelet; lastIter is what *)
(*                         the latest run of the poll condition met        *)
(*   lookupDone, lookupArg, lookupRes   the last GetCgroupPathFormatter    *)
(*                         call and its result                             *)
(*   rpc, rpending, rcopy  a goroutine reading CgroupPathFormatter         *)
(***************************************************************************)
VARIABLES fmtr, fop, qos, podUID, containerID, fpc, podDir, podBase, podParsed,
          ctrDir, ctrParsed,
          CgroupPathFormatter, phase, seedGuess, seeded, lastBind,
          wpc, wdriver, wpending,
          dpc, dcaller, dguess, attempts, lastIter, pollEnd, kdriver, kerr, dret,
          lookupDone, lookupArg, lookupRes,
          rpc, rpending, rcopy

fvars == <<fmtr, fop, qos, podUID, containerID, fpc, podDir, podBase, podParsed,
           ctrDir, ctrParsed>>
svars == <<phase, seedGuess, seeded>>
wvars == <<wpc, wdriver, wpending, lastBind>>
dvars == <<dpc, dcaller, dguess, attempts, lastIter, pollEnd, kdriver, kerr, dret>>
lvars == <<lookupDone, lookupArg, lookupRes>>
rvars == <<rpc, rpending, rcopy>>
vars == <<fvars, CgroupPathFormatter, svars, wvars, dvars, lvars, rvars>>

(***************************************************************************)
(* Input sets.                                                             *)
(***************************************************************************)
Strings(alphabet, n) == UNION {[1..k -> alphabet] : k \in 0..n}

\* CgroupDriverType is a string type: the two valid values and two others.
DriverValues == {Cgroupfs, Systemd, "", "none"}

\* The arguments of a GetCgroupPathFormatter call: each case of its switch.
LookupDrivers == {Cgroupfs, Systemd, "none"}

\* The driver GuessCgroupDriverFromKubeletPort returns with no error: one of
\* the two, or a value that is neither.
PortDrivers == {Cgroupfs, Systemd, ""}

\* What GuessCgroupDriverFromCgroupName returns: a driver, or the empty value
\* when the cgroup names tell nothing.
GuessOutcomes == {Cgroupfs, Systemd, ""}

\* corev1.PodQOSClass: the three classes and the empty string.
QOSValues == {PodQOSGuaranteed, PodQOSBurstable, PodQOSBestEffort, ""}

ExampleUID == <<"a", "b", "c", "-", "1", "2", "3", "-", "d", "e", "f">>
PodUIDs == Strings({"a", "-", "_"}, MaxUidLen) \cup {ExampleUID}

ExampleHash == <<"d", "e", "a", "d", "b", "e", "e", "f">>
Hashes == Strings({"a", ":", "/"}, MaxHashLen) \cup {ExampleHash}
RuntimePrefixes ==
    {RuntimeTypeDocker, RuntimeTypeContainerd, <<>>,
     <<"c", "r", "i", "-", "o">>, <<"d", "o", "c", "k", "e", "r", "d">>,
     <<"D", "o", "c", "k", "e", "r">>}
Separators == {SchemeSep, <<":", "/">>, <<>>}
ContainerIDs ==
    {p \o s \o h : p \in RuntimePrefixes, s \in Separators, h \in Hashes}

(***************************************************************************)
(* Initial states.                                                         *)
(***************************************************************************)
ZeroFormatter ==
    [fld \in FormatterFields |-> IF fld = "ParentDir" THEN GoString("", 0) ELSE ""]
NoResult == [id |-> <<>>, err |-> FALSE]
NoDir == [runtime |-> <<>>, name |-> <<>>, err |-> FALSE]
NoIteration == [kind |-> "none", portErr |-> FALSE, driver |-> ""]

FmtIdle ==
    /\ fmtr = cgroupPathFormatterInSystemd
    /\ fop = "none"
    /\ qos = ""
    /\ podUID = <<>>
    /\ containerID = <<>>
    /\ fpc = "start"
    /\ podDir = <<>>
    /\ podBase = <<>>
    /\ podParsed = NoResult
    /\ ctrDir = NoDir
    /\ ctrParsed = NoResult

ProcBoot ==
    /\ CgroupPathFormatter = ZeroFormatter
    /\ phase = "boot"
    /\ seedGuess = ""
    /\ seeded = ZeroFormatter
    /\ lastBind = "none"
    /\ wpc = "idle"
    /\ wdriver = ""
    /\ wpending = {}
    /\ dpc = "idle"
    /\ dcaller = "none"
    /\ dguess = ""
    /\ attempts = 0
    /\ lastIter = NoIteration
    /\ pollEnd = "none"
    /\ kdriver = ""
    /\ kerr = FALSE
    /\ dret = ""
    /\ lookupDone = FALSE
    /\ lookupArg = ""
    /\ lookupRes = ZeroFormatter
    /\ rpc = "idle"
    /\ rpending = {}
    /\ rcopy = ZeroFormatter

Init == ProcBoot /\ FmtIdle

\* A formatter, and the inputs of one pod call or one container call.
InitFmt ==
    /\ ProcBoot
    /\ fmtr \in {cgroupPathFormatterInSystemd, cgroupPathFormatterInCgroupfs}
    /\ fop \in {"pod", "container"}
    /\ qos \in (IF fop = "pod" THEN QOSValues ELSE {""})
    /\ podUID \in (IF fop = "pod" THEN PodUIDs ELSE {<<>>})
    /\ containerID \in (IF fop = "container" THEN ContainerIDs ELSE {<<>>})
    /\ fpc = "start"
    /\ podDir = <<>>
    /\ podBase = <<>>
    /\ podParsed = NoResult
    /\ ctrDir = NoDir
    /\ ctrParsed = NoResult

(***************************************************************************)
(* Formatting and parsing calls.                                           *)
(***************************************************************************)
\* strings.TrimSuffix(s, suffix): what a caller taking the base name of a
\* directory does to the trailing "/" of PodDirFn's result.
TrimSuffix(s, suffix) ==
    IF HasSuffix(s, suffix) THEN SubSeq(s, 1, Len(s) - Len(suffix)) ELSE s

\* What a caller may hand to PodIDParser after PodDirFn: the directory name
\* as returned, or its base name.
PodParserInputs(dir) == {dir, TrimSuffix(dir, Slash)}

CallPodDirFn ==
    /\ fop = "pod" /\ fpc = "start"
    /\ podDir' = PodDirFn(fmtr, qos, podUID)
    /\ fpc' = "formatted"
    /\ UNCHANGED <<fmtr, fop, qos, podUID, containerID, podBase, podParsed,
                   ctrDir, ctrParsed>>
    /\ UNCHANGED <<CgroupPathFormatter, svars, wvars, dvars, lvars, rvars>>

CallPodIDParser ==
    /\ fop = "pod" /\ fpc = "formatted"
    /\ \E b \in PodParserInputs(podDir) :
          /\ podBase' = b
          /\ podParsed' = PodIDParser(fmtr, b)
    /\ fpc' = "parsed"
    /\ UNCHANGED <<fmtr, fop, qos, podUID, containerID, podDir, ctrDir, ctrParsed>>
    /\ UNCHANGED <<CgroupPathFormatter, svars, wvars, dvars, lvars, rvars>>

CallContainerDirFn ==
    /\ fop = "container" /\ fpc = "start"
    /\ ctrDir' = ContainerDirFn(fmtr, containerID)
    /\ fpc' = "formatted"
    /\ UNCHANGED <<fmtr, fop, qos, podUID, containerID, podDir, podBase,
                   podParsed, ctrParsed>>
    /\ UNCHANGED <<CgroupPathFormatter, svars, wvars, dvars, lvars, rvars>>

CallContainerIDParser ==
    /\ fop = "container" /\ fpc = "formatted"
    /\ ~ctrDir.err
    /\ ctrParsed' = ContainerIDParser(fmtr, ctrDir.name)
    /\ fpc' = "parsed"
    /\ UNCHANGED <<fmtr, fop, qos, podUID, containerID, podDir, podBase,
                   podParsed, ctrDir>>
    /\ UNCHANGED <<CgroupPathFormatter, svars, wvars, dvars, lvars, rvars>>

NextFmt ==
    \/ CallPodDirFn
    \/ CallPodIDParser
    \/ CallContainerDirFn
    \/ CallContainerIDParser

SpecFmt == InitFmt /\ [][NextFmt]_vars

(***************************************************************************)
(* Claims on the formatting and parsing functions (SpecFmt).               *)
(***************************************************************************)
IsSystemd(f) == f = cgroupPathFormatterInSystemd
ThreeQOS == {PodQOSGuaranteed, PodQOSBurstable, PodQOSBestEffort}

\* The UID with every hyphen replaced by an underscore, character by character.
Underscored(uid) == [i \in 1..Len(uid) |-> IF uid[i] = "-" THEN "_" ELSE uid[i]]

\* What the claim expects PodIDParser to return for the formatted UID.
ExpectedPodID == IF IsSystemd(fmtr) THEN Underscored(podUID) ELSE podUID

\* C1 as stated: for every QoS class and pod UID, PodIDParser applied to the
\* very string PodDirFn returned succeeds and yields the UID (cgroupfs) or the
\* UID with hyphens replaced by underscores (systemd).
C1_FedStraight ==
    (fop = "pod" /\ fpc = "parsed" /\ qos \in ThreeQOS /\ podBase = podDir)
        => (~podParsed.err /\ podParsed.id = ExpectedPodID)

\* C1 (amended): for every QoS class and pod UID, PodIDParser applied to
\* PodDirFn's result with its trailing "/" removed (the directory's base name)
\* succeeds and yields the UID (cgroupfs) or the UID with hyphens replaced by
\* underscores (systemd).
C1_RoundTripOnBasename ==
    (fop = "pod" /\ fpc = "parsed" /\ qos \in ThreeQOS
        /\ podBase = TrimSuffix(podDir, Slash) /\ podBase # podDir)
        => (~podParsed.err /\ podParsed.id = ExpectedPodID)

C1_Witness ==
    /\ fop = "pod" /\ fpc = "parsed"
    /\ IsSystemd(fmtr) /\ qos = PodQOSBurstable /\ podUID = ExampleUID
    /\ podDir = KubepodsBurstablePodPrefix
                  \o <<"a", "b", "c", "_", "1", "2", "3", "_", "d", "e", "f">>
                  \o SliceSuffix \o Slash
    /\ podBase = TrimSuffix(podDir, Slash)
    /\ ~podParsed.err
    /\ podParsed.id = <<"a", "b", "c", "_", "1", "2", "3", "_", "d", "e", "f">>

\* Container IDs of the form "docker://X" or "containerd://X", X without "/".
RuntimeSchemes == {RuntimeTypeDocker \o SchemeSep, RuntimeTypeContainerd \o SchemeSep}
HasRuntimeScheme(id) == \E p \in RuntimeSchemes : HasPrefix(id, p)
HashPortion(id) ==
    LET p == CHOOSE q \in RuntimeSchemes : HasPrefix(id, q)
    IN  SubSeq(id, Len(p) + 1, Len(id))
NoSlash(s) == \A i \in 1..Len(s) : s[i] # "/"

\* C7: for every container ID "docker://X" or "containerd://X" with no "/"
\* in X, under both conventions, ContainerDirFn succeeds and
\* ContainerIDParser applied to the name it returned succeeds with exactly X.
C7_ContainerRoundTrip ==
    (fop = "container" /\ fpc # "start" /\ HasRuntimeScheme(containerID)
        /\ NoSlash(HashPortion(containerID)))
        => /\ ~ctrDir.err
           /\ fpc = "parsed" =>
                (~ctrParsed.err /\ ctrParsed.id = HashPortion(containerID))

C7_Witness ==
    /\ fop = "container" /\ fpc = "parsed"
    /\ IsSystemd(fmtr)
    /\ containerID = RuntimeTypeContainerd \o SchemeSep \o ExampleHash
    /\ ctrDir.name = CriContainerdScopePrefix \o ExampleHash \o ScopeSuffix
    /\ ctrParsed.id = ExampleHash

\* The container ID holds "://" somewhere.
ContainsSep(id) ==
    \E i \in 1..Len(id) : i + 2 <= Len(id) /\ SubSeq(id, i, i + 2) = SchemeSep
\* What stands before the first "://" of an ID that holds one.
RuntimePrefixOf(id) ==
    LET k == CHOOSE i \in 1..Len(id) :
                /\ i + 2 <= Len(id) /\ SubSeq(id, i, i + 2) = SchemeSep
                /\ \A j \in 1..(i - 1) : SubSeq(id, j, j + 2) # SchemeSep
    IN  SubSeq(id, 1, k - 1)
KnownRuntimes == {RuntimeTypeDocker, RuntimeTypeContainerd}

\* C8: under both conventions ContainerDirFn returns an error, with runtime
\* "unknown" and an empty name, for every ID without "://" and for every ID
\* whose prefix before "://" is not exactly "docker" or "containerd"; it
\* returns no error only for those two prefixes.
C8_ContainerDirErrors ==
    (fop = "container" /\ fpc # "start")
        => /\ ~ContainsSep(containerID) => ctrDir.err
           /\ (ContainsSep(containerID)
                 /\ RuntimePrefixOf(containerID) \notin KnownRuntimes) => ctrDir.err
           /\ ~ctrDir.err =>
                 (ContainsSep(containerID)
                    /\ RuntimePrefixOf(containerID) \in KnownRuntimes
                    /\ ctrDir.runtime = RuntimePrefixOf(containerID))
           /\ ctrDir.err => (ctrDir.runtime = RuntimeTypeUnknown /\ ctrDir.name = <<>>)

C8_Witness ==
    /\ fop = "container" /\ fpc = "formatted"
    /\ ~IsSystemd(fmtr)
    /\ containerID = <<"d", "o", "c", "k", "e", "r", "d">> \o SchemeSep \o <<"a">>
    /\ ctrDir.err /\ ctrDir.runtime = RuntimeTypeUnknown /\ ctrDir.name = <<>>

(***************************************************************************)
(* GetCgroupPathFormatter, GetCgroupFormatter, SetupCgroupPathFormatter.   *)
(***************************************************************************)
GetCgroupPathFormatterDefaultCgroupfs(driver) ==
    CASE driver = Systemd  -> cgroupPathFormatterInSystemd
      [] driver = Cgroupfs -> cgroupPathFormatterInCgroupfs
      [] OTHER -> cgroupPathFormatterInCgroupfs

GetCgroupPathFormatter(driver) ==
    CASE driver = Systemd  -> cgroupPathFormatterInSystemd
      [] driver = Cgroupfs -> cgroupPathFormatterInCgroupfs
      [] OTHER -> cgroupPathFormatterInSystemd

\* GetCgroupFormatter, given what GuessCgroupDriverFromCgroupName returned.
GetCgroupFormatterKubeletDefault(driver) ==
    IF Validate(driver) THEN GetCgroupPathFormatter(driver)
    ELSE GetCgroupPathFormatter(kubeletDefaultCgroupDriver)

GetCgroupFormatter(driver) ==
    IF Validate(driver) THEN GetCgroupPathFormatter(driver)
    ELSE cgroupPathFormatterInSystemd

\* The switch of SetupCgroupPathFormatter: the value it assigns to
\* CgroupPathFormatter, or NoAssignment in the default case.
NoAssignment ==
    [fld \in FormatterFields |->
        IF fld = "ParentDir" THEN GoString("unassigned", 0) ELSE "unassigned"]

SetupAssignedValueWithDefault(driver) == GetCgroupPathFormatter(driver)

SetupAssignedValue(driver) ==
    CASE driver = Systemd  -> cgroupPathFormatterInSystemd
      [] driver = Cgroupfs -> cgroupPathFormatterInCgroupfs
      [] OTHER -> NoAssignment

(***************************************************************************)
(* Package initialisation: var CgroupPathFormatter = GetCgroupFormatter(). *)
(* It runs before any other code of the process.                           *)
(***************************************************************************)
InitCgroupPathFormatter ==
    /\ phase = "boot"
    /\ \E guess \in GuessOutcomes :
          /\ seedGuess' = guess
          /\ CgroupPathFormatter' = GetCgroupFormatter(guess)
          /\ seeded' = GetCgroupFormatter(guess)
    /\ phase' = "running"
    /\ lastBind' = "seed"
    /\ UNCHANGED <<wpc, wdriver, wpending>>
    /\ UNCHANGED <<fvars, dvars, lvars, rvars>>

(***************************************************************************)
(* SetupCgroupPathFormatter(driver).  The assignment of a Formatter struct *)
(* value is a copy of its seven machine words, in no order the language    *)
(* fixes and with no synchronisation: the call picks the value, then one   *)
(* step per word.                                                          *)
(***************************************************************************)
SetupCgroupPathFormatter ==
    /\ phase = "running" /\ wpc = "idle"
    /\ \E driver \in DriverValues :
          /\ wdriver' = driver
          /\ lastBind' = IF Validate(driver) THEN driver ELSE lastBind
          /\ IF SetupAssignedValue(driver) = NoAssignment
             THEN wpc' = "idle" /\ wpending' = {}
             ELSE wpc' = "copy" /\ wpending' = FormatterWords
    /\ UNCHANGED <<CgroupPathFormatter, svars, fvars, dvars, lvars, rvars>>

SetupCopyWord ==
    /\ wpc = "copy"
    /\ \E w \in wpending :
          /\ CgroupPathFormatter' =
                WithWord(CgroupPathFormatter, w,
                         WordOf(SetupAssignedValue(wdriver), w))
          /\ wpending' = wpending \ {w}
          /\ wpc' = IF wpending \ {w} = {} THEN "idle" ELSE "copy"
    /\ UNCHANGED <<wdriver, lastBind>>
    /\ UNCHANGED <<svars, fvars, dvars, lvars, rvars>>

(***************************************************************************)
(* A call of GetCgroupPathFormatter(driver).                               *)
(***************************************************************************)
CallGetCgroupPathFormatter ==
    /\ phase = "running"
    /\ \E driver \in LookupDrivers :
          /\ lookupArg' = driver
          /\ lookupRes' = GetCgroupPathFormatter(driver)
    /\ lookupDone' = TRUE
    /\ UNCHANGED <<CgroupPathFormatter, svars, wvars, fvars, dvars, rvars>>

(***************************************************************************)
(* A goroutine reading CgroupPathFormatter: a copy of the struct value,    *)
(* word by word, with no synchronisation.                                  *)
(***************************************************************************)
ReadStart ==
    /\ phase = "running" /\ rpc = "idle"
    /\ rpc' = "copy"
    /\ rpending' = FormatterWords
    /\ rcopy' = ZeroFormatter
    /\ UNCHANGED <<CgroupPathFormatter, svars, wvars, fvars, dvars, lvars>>

ReadWord ==
    /\ rpc = "copy"
    /\ \E w \in rpending :
          /\ rcopy' = WithWord(rcopy, w, WordOf(CgroupPathFormatter, w))
          /\ rpending' = rpending \ {w}
          /\ rpc' = IF rpending \ {w} = {} THEN "done" ELSE "copy"
    /\ UNCHANGED <<CgroupPathFormatter, svars, wvars, fvars, dvars, lvars>>

(***************************************************************************)
(* DetectCgroupDriverFromKubelet: wait.PollImmediate(10s, 1min, condition) *)
(* calls the condition at once, then on every tick of the interval until   *)
(* the timeout, and once more when the timeout ends the ticks.  A slow     *)
(* condition misses ticks, so the timeout may follow any attempt.          *)
(***************************************************************************)
PollIntervalSec == 10
PollTimeoutSec == 60
MaxPollAttempts == (PollTimeoutSec \div PollIntervalSec) + 2

\* What one run of the condition meets: the first collaborator that fails,
\* or the answer of GuessCgroupDriverFromKubeletPort (a driver and an error).
IterationOutcomes ==
    {[kind |-> k, portErr |-> FALSE, driver |-> ""] :
        k \in {"GetConfigErr", "NewForConfigErr", "GetNodeErr"}}
    \cup {[kind |-> "PortQuery", portErr |-> FALSE, driver |-> d] :
            d \in PortDrivers}
    \cup {[kind |-> "PortQuery", portErr |-> TRUE, driver |-> d] :
            d \in {"", Cgroupfs}}

\* The condition function: "done" (true, nil), "retry" (false, nil), or
\* "panic" (clientset.NewForConfigOrDie panics when the client cannot be
\* built from the config).
PollCondition(o) ==
    CASE o.kind = "GetConfigErr"    -> "retry"
      [] o.kind = "NewForConfigErr" -> "panic"
      [] o.kind = "GetNodeErr"      -> "retry"
      [] OTHER -> IF ~o.portErr /\ Validate(o.driver) THEN "done" ELSE "retry"

\* A direct call of DetectCgroupDriverFromKubelet(nodeName).
DetectCgroupDriverFromKubelet ==
    /\ phase = "running" /\ dpc = "idle"
    /\ dcaller' = "DetectCgroupDriverFromKubelet"
    /\ dpc' = "poll"
    /\ UNCHANGED <<dguess, attempts, lastIter, pollEnd, kdriver, kerr, dret>>
    /\ UNCHANGED <<CgroupPathFormatter, svars, wvars, fvars, lvars, rvars>>

\* One run of the condition function.
PollIteration ==
    /\ dpc = "poll" /\ attempts < MaxPollAttempts
    /\ \E o \in IterationOutcomes :
          /\ lastIter' = o
          /\ CASE PollCondition(o) = "done" ->
                    /\ dpc' = "kret"
                    /\ pollEnd' = "condition"
                    /\ kdriver' = o.driver
                    /\ kerr' = FALSE
               [] PollCondition(o) = "panic" ->
                    /\ dpc' = "panic"
                    /\ UNCHANGED <<pollEnd, kdriver, kerr>>
               [] OTHER ->
                    /\ dpc' = "poll"
                    /\ UNCHANGED <<pollEnd, kdriver, kerr>>
    /\ attempts' = attempts + 1
    /\ UNCHANGED <<dcaller, dguess, dret>>
    /\ UNCHANGED <<CgroupPathFormatter, svars, wvars, fvars, lvars, rvars>>

\* The poll times out: DetectCgroupDriverFromKubelet returns ("", pollErr).
PollTimeout ==
    /\ dpc = "poll" /\ attempts >= 1
    /\ dpc' = "kret"
    /\ pollEnd' = "timeout"
    /\ kdriver' = ""
    /\ kerr' = TRUE
    /\ lastIter' = NoIteration
    /\ UNCHANGED <<dcaller, dguess, attempts, dret>>
    /\ UNCHANGED <<CgroupPathFormatter, svars, wvars, fvars, lvars, rvars>>

(***************************************************************************)
(* DetectCgroupDriver: the guess from the cgroup names, then the kubelet.  *)
(***************************************************************************)
DetectCgroupDriver ==
    /\ phase = "running" /\ dpc = "idle"
    /\ dcaller' = "DetectCgroupDriver"
    /\ \E guess \in GuessOutcomes :
          /\ dguess' = guess
          /\ IF Validate(guess)
             THEN dpc' = "done" /\ dret' = guess
             ELSE dpc' = "poll" /\ dret' = dret
    /\ UNCHANGED <<attempts, lastIter, pollEnd, kdriver, kerr>>
    /\ UNCHANGED <<CgroupPathFormatter, svars, wvars, fvars, lvars, rvars>>

\* What DetectCgroupDriver returns once DetectCgroupDriverFromKubelet has.
DetectResultKubeletDefault(driver, err) ==
    IF ~err THEN driver ELSE kubeletDefaultCgroupDriver

DetectResult(driver, err) == IF ~err THEN driver ELSE Systemd

DetectReturnSteps ==
    /\ dpc = "kret" /\ dcaller = "DetectCgroupDriver"
    /\ dret' = DetectResult(kdriver, kerr)
    /\ dpc' = "done"
    /\ UNCHANGED <<dcaller, dguess, attempts, lastIter, pollEnd, kdriver, kerr>>

DetectCgroupDriverReturnAndRebind ==
    /\ DetectReturnSteps
    /\ CgroupPathFormatter' = GetCgroupPathFormatter(dret')
    /\ UNCHANGED <<svars, wvars, fvars, lvars, rvars>>

DetectCgroupDriverReturn ==
    /\ DetectReturnSteps
    /\ UNCHANGED <<CgroupPathFormatter, svars, wvars, fvars, lvars, rvars>>

(***************************************************************************)
(* Specifications.                                                         *)
(*   Spec      package initialisation, SetupCgroupPathFormatter calls, a   *)
(*             detection and GetCgroupPathFormatter calls, interleaved.    *)
(*   SpecRace  package initialisation, SetupCgroupPathFormatter calls and  *)
(*             a concurrent reader of CgroupPathFormatter.                 *)
(***************************************************************************)
Next ==
    \/ InitCgroupPathFormatter
    \/ SetupCgroupPathFormatter
    \/ SetupCopyWord
    \/ CallGetCgroupPathFormatter
    \/ DetectCgroupDriver
    \/ DetectCgroupDriverFromKubelet
    \/ PollIteration
    \/ PollTimeout
    \/ DetectCgroupDriverReturn

Spec == Init /\ [][Next]_vars

NextRace ==
    \/ InitCgroupPathFormatter
    \/ SetupCgroupPathFormatter
    \/ SetupCopyWord
    \/ ReadStart
    \/ ReadWord

SpecRace == Init /\ [][NextRace]_vars


(***************************************************************************)
(* Claims on detection and on the active formatter.                        *)
(***************************************************************************)
Instances == {cgroupPathFormatterInSystemd, cgroupPathFormatterInCgroupfs}

\* C2 as stated: DetectCgroupDriver never fails outward and always returns
\* a valid driver: the guess at once, without the kubelet, when the guess is
\* valid; else the kubelet's driver when DetectCgroupDriverFromKubelet
\* returns no error; else systemd.
C2_DetectNeverFails ==
    (dcaller = "DetectCgroupDriver" /\ dpc \in {"done", "panic"})
        => /\ dpc = "done"
           /\ Validate(dret)
           /\ Validate(dguess) => (dret = dguess /\ attempts = 0 /\ pollEnd = "none")
           /\ (~Validate(dguess) /\ pollEnd = "condition") => dret = kdriver
           /\ (~Validate(dguess) /\ pollEnd = "timeout") => dret = Systemd

\* C3 as stated: a read of CgroupPathFormatter that runs concurrently with
\* SetupCgroupPathFormatter yields all fields of the systemd instance or all
\* fields of the cgroupfs instance, never a mix.
C3_ReadNeverTorn ==
    rpc = "done" => rcopy \in Instances

\* The instance C4 expects to be active: that of the latest rebind with a
\* valid driver, or the seeded one.
ExpectedActive ==
    CASE lastBind = Systemd  -> cgroupPathFormatterInSystemd
      [] lastBind = Cgroupfs -> cgroupPathFormatterInCgroupfs
      [] OTHER -> seeded

\* C4: after seeding and any sequence of completed SetupCgroupPathFormatter
\* calls the active formatter is one of the two instances: that of the most
\* recent call with a valid driver, or the seeded one if there was none; a
\* call with any other driver leaves it unchanged.
C4_LastValidRebindWins ==
    (phase = "running" /\ wpc = "idle")
        => (CgroupPathFormatter \in Instances /\ CgroupPathFormatter = ExpectedActive)

C4_Witness ==
    /\ phase = "running" /\ wpc = "idle"
    /\ seeded = cgroupPathFormatterInSystemd
    /\ lastBind = Cgroupfs
    /\ wdriver = "none"
    /\ CgroupPathFormatter = cgroupPathFormatterInCgroupfs

\* The step of package initialisation, as C5 describes it.
C5_SeedStep ==
    (phase = "boot" /\ phase' = "running")
        => /\ CgroupPathFormatter' =
                (IF seedGuess' = Cgroupfs THEN cgroupPathFormatterInCgroupfs
                 ELSE cgroupPathFormatterInSystemd)
           /\ dpc' = "idle" /\ attempts' = 0 /\ pollEnd' = "none"

\* C5: seeding binds the active formatter to the instance of the guessed
\* driver when the guess is valid and to the systemd instance when it is
\* not, and starts no kubelet poll.
C5_Seeding == [][C5_SeedStep]_vars

C5_Witness ==
    /\ phase = "running" /\ lastBind = "seed" /\ wpc = "idle"
    /\ seedGuess = ""
    /\ CgroupPathFormatter = cgroupPathFormatterInSystemd
    /\ dpc = "idle" /\ attempts = 0

\* An iteration of the poll that fails: a collaborator returns an error
\* (the config, the client built from it, the node, the port query) or the
\* driver obtained is not valid; and the iteration that succeeds.
IterationFails(o) ==
    \/ o.kind \in {"GetConfigErr", "NewForConfigErr", "GetNodeErr"}
    \/ o.kind = "PortQuery" /\ (o.portErr \/ o.driver \notin {Cgroupfs, Systemd})
ObtainsValidDriver(o) ==
    o.kind = "PortQuery" /\ ~o.portErr /\ o.driver \in {Cgroupfs, Systemd}
IterationStep == dpc = "poll" /\ attempts' = attempts + 1

\* One step of a detection, as C6 describes it.
C6_Step ==
    /\ (IterationStep /\ IterationFails(lastIter'))
          => (dpc' = "poll" /\ UNCHANGED <<kdriver, kerr, pollEnd, dret>>)
    /\ (IterationStep /\ ObtainsValidDriver(lastIter'))
          => (dpc' = "kret" /\ ~kerr' /\ kdriver' = lastIter'.driver)
    /\ (~kerr /\ kerr') => (~IterationStep /\ attempts >= 1 /\ pollEnd' = "timeout")
    /\ (pollEnd' # "none" /\ ~kerr') => kdriver' \in {Cgroupfs, Systemd}
    /\ attempts' <= MaxPollAttempts
    /\ dpc' # "panic"

\* C6 as stated: in DetectCgroupDriverFromKubelet every iteration that fails
\* (config or credential error, node fetch error, port-query error, invalid
\* driver) is swallowed and does not end the call; the call ends only by
\* returning: with an error only on the timeout of the poll, at the first
\* iteration that obtains a valid driver otherwise, and a driver returned
\* with no error is valid; the attempts are bounded.
C6_EveryFailureSwallowed == [][C6_Step]_vars

\* C9: GetCgroupPathFormatter is total: the cgroupfs instance for cgroupfs,
\* the systemd instance for systemd and for every other driver value.
C9_LookupTotal ==
    lookupDone
        => /\ lookupRes \in Instances
           /\ lookupRes = (IF lookupArg = Cgroupfs THEN cgroupPathFormatterInCgroupfs
                           ELSE cgroupPathFormatterInSystemd)

C9_Witness ==
    /\ lookupDone /\ lookupArg = "none"
    /\ lookupRes = cgroupPathFormatterInSystemd

\* A step of the lookup or of the detection keeps CgroupPathFormatter; a
\* step that changes it after seeding is a word copy of a valid rebind.
C10_Step ==
    /\ (dvars' # dvars \/ lvars' # lvars)
          => CgroupPathFormatter' = CgroupPathFormatter
    /\ (phase = "running" /\ CgroupPathFormatter' # CgroupPathFormatter)
          => (wpc = "copy" /\ wdriver \in {Cgroupfs, Systemd} /\ wpending' # wpending)

\* C10: no step of GetCgroupPathFormatter, DetectCgroupDriver or
\* DetectCgroupDriverFromKubelet changes CgroupPathFormatter; after seeding
\* only SetupCgroupPathFormatter with a valid driver changes it.
C10_OnlySetupWrites == [][C10_Step]_vars

C10_Witness ==
    /\ dcaller = "DetectCgroupDriver" /\ dpc = "done"
    /\ dret = Cgroupfs /\ pollEnd = "condition"
    /\ lastBind = "seed" /\ wdriver = ""
    /\ CgroupPathFormatter = cgroupPathFormatterInSystemd
    /\ lookupDone

====
